---- MODULE Spec2Model ----
(***************************************************************************)
(* The request-delivery core of the JSON-RPC client: retryPolicy, the two  *)
(* built-in RequestRetryer implementations and the send loop of            *)
(* apiClient.sendRequest, with context cancellation.                       *)
(***************************************************************************)
EXTENDS Integers, Sequences, FiniteSets, TLC

\* ------------------------------------------------------------------------
\* Bounds of the model
\* ------------------------------------------------------------------------
\* largest MaxRetryAttempts a ConstantRequestRetryer is configured with
MaxRetryBound == 3
\* largest RetryDelay (in abstract ticks) a ConstantRequestRetryer is given
MaxDelayBound == 1
\* largest attempt number handed to CheckRetry when it is called directly
MaxProbeAttempt == 4
\* the largest number of seconds a Retry-After header asks for
MaxRetryAfter == 2
\* ticks of the duration type in one time.Second
Second == 10
\* the largest minDelay and maxDelay handed to a jitter backoff, in ticks
MaxDur == 8
\* the largest attempt number handed to a jitter backoff
MaxBackoffAttempt == 5
\* the values the random number in [0,1) takes: j / JitterSteps, j < JitterSteps
JitterSteps == 4
\* width of the signed duration type, scaled down from 64 bits
DurationBits == 8
\* number of bytes of the marshalled request body
PayloadLen == 2

\* ------------------------------------------------------------------------
\* Values
\* ------------------------------------------------------------------------
\* error values; Nil is Go's nil error
Nil == [kind |-> "nil"]
\* ctx.Err() of a cancelled context ("context canceled")
CtxErr == [kind |-> "ctx"]
\* fmt.Errorf("unexpected HTTP status: %s", resp.Status)
StatusErr(r) == [kind |-> "status", status |-> r.status]
\* the error json.Decoder.Decode returns for a body that is no envelope
DecodeErr == [kind |-> "decode"]
\* fmt.Errorf("%s (%d)", rpcResponse.Error.Message, rpcResponse.Error.Code)
RPCErr(b) == [kind |-> "rpc", message |-> b.value, code |-> b.code]
\* fmt.Errorf("%s %s giving up after %d attempt(s)", ...)
GivingUpErr(n) == [kind |-> "givingUp", attempts |-> n]
\* the call has not returned yet
NotReturned == [kind |-> "running"]

\* transport errors: urlError says whether the value is a *url.Error, msg
\* which of the two patterns its message matches, cause what v.Err is
TransportErr(u, m, c) == [kind |-> "transport", urlError |-> u, msg |-> m, cause |-> c]
GenericErr == TransportErr(TRUE, "other", "other")
RedirectErr == TransportErr(TRUE, "redirects", "other")
SchemeErr == TransportErr(TRUE, "scheme", "other")
AuthorityErr == TransportErr(TRUE, "other", "unknownAuthority")
\* what http.Client.Do returns when the request's context is done
CtxTransportErr == TransportErr(TRUE, "other", "ctx")
\* an error with a matching message that is not a *url.Error
PlainRedirectErr == TransportErr(FALSE, "redirects", "other")

PlainSchemeErr == TransportErr(FALSE, "scheme", "other")
PlainAuthorityErr == TransportErr(FALSE, "other", "unknownAuthority")

\* every error Do returns is a *url.Error
DoErrors == {GenericErr, RedirectErr, SchemeErr, AuthorityErr}
AllTransportErrors ==
    DoErrors \cup {CtxTransportErr, PlainRedirectErr, PlainSchemeErr, PlainAuthorityErr}

\* response bodies: a JSON-RPC envelope with a result, one with an error
\* object, or bytes that do not decode
ResultBody(v) == [kind |-> "result", value |-> v, code |-> 0]
ErrorBody == [kind |-> "error", value |-> "test error", code |-> 1]
MalformedBody == [kind |-> "malformed", value |-> "", code |-> 0]
Bodies == {ResultBody("Value"), ResultBody("Other"), ErrorBody, MalformedBody}

\* status codes the server answers with in the send loop
Statuses == {0, 200, 204, 401, 429, 500, 501, 503}
\* status codes CheckRetry is probed with directly
ProbeStatuses == {0, 100, 199, 200, 204, 299, 300, 301, 400, 401, 429, 499,
                  500, 501, 502, 503, 599, 600}

Is2xx(s) == s >= 200 /\ s <= 299

\* *http.Response; NilResp is the nil pointer Do returns next to an error
Response(s, b) == [present |-> TRUE, status |-> s, body |-> b]
NilResp == [present |-> FALSE, status |-> 0, body |-> MalformedBody]
\* the body of a response outside 2xx is drained, never decoded: a result
\* envelope and undecodable bytes stand for what it may hold
UndecodedBodies == {ResultBody("Other"), MalformedBody}
Responses ==
    UNION {{Response(s, b) : b \in (IF Is2xx(s) THEN Bodies ELSE UndecodedBodies)} :
              s \in Statuses}
\* responses CheckRetry is probed with directly
ProbeResponses == {Response(s, MalformedBody) : s \in ProbeStatuses}

\* resp.Header: the Retry-After header is absent, is not a number, or is a
\* number of seconds
NoRetryAfter == [kind |-> "absent", secs |-> 0]
GarbageRetryAfter == [kind |-> "garbage", secs |-> 0]
RetryAfterSeconds(k) == [kind |-> "seconds", secs |-> k]
RetryAfterHeaders ==
    {NoRetryAfter, GarbageRetryAfter} \cup {RetryAfterSeconds(k) : k \in 0..MaxRetryAfter}
WithHeader(r, h) ==
    [present |-> r.present, status |-> r.status, body |-> r.body, retryAfter |-> h]
\* the responses Backoff is called with
BackoffResponses ==
    {WithHeader(Response(s, MalformedBody), h) : s \in {200, 429, 503}, h \in RetryAfterHeaders}
        \cup {WithHeader(NilResp, NoRetryAfter)}

\* ------------------------------------------------------------------------
\* retry.go: retryPolicy and the retryers
\* ------------------------------------------------------------------------
Decision(b, e) == [retry |-> b, err |-> e]

\* retryPolicy as an earlier revision had it: only the retryable statuses
\* yield an error, every other status counts as a success
retryPolicy_earlier(r, err) ==
    IF err # Nil
    THEN IF /\ err.kind = "transport"
            /\ err.urlError
            /\ \/ err.msg = "redirects"
               \/ err.msg = "scheme"
               \/ err.cause = "unknownAuthority"
         THEN Decision(FALSE, err)
         ELSE Decision(TRUE, err)
    ELSE IF r.status = 0 \/ (r.status >= 500 /\ r.status # 501)
         THEN Decision(TRUE, StatusErr(r))
         ELSE Decision(FALSE, Nil)

\* retryPolicy without the check for the TLS verification failure
retryPolicy_noAuthorityCheck(r, err) ==
    IF err # Nil
    THEN IF /\ err.kind = "transport"
            /\ err.urlError
            /\ \/ err.msg = "redirects"
               \/ err.msg = "scheme"
         THEN Decision(FALSE, err)
         ELSE Decision(TRUE, err)
    ELSE IF r.status = 0 \/ (r.status >= 500 /\ r.status # 501)
         THEN Decision(TRUE, StatusErr(r))
         ELSE IF r.status < 200 \/ r.status >= 300
              THEN Decision(FALSE, StatusErr(r))
              ELSE Decision(FALSE, Nil)

\* retryPolicy looking at a 2xx response before it looks at the error
retryPolicy_statusFirst(r, err) ==
    IF r.present /\ Is2xx(r.status)
    THEN Decision(FALSE, Nil)
    ELSE IF err # Nil
         THEN IF /\ err.kind = "transport"
                 /\ err.urlError
                 /\ \/ err.msg = "redirects"
                    \/ err.msg = "scheme"
                    \/ err.cause = "unknownAuthority"
              THEN Decision(FALSE, err)
              ELSE Decision(TRUE, err)
         ELSE IF r.status = 0 \/ (r.status >= 500 /\ r.status # 501)
              THEN Decision(TRUE, StatusErr(r))
              ELSE Decision(FALSE, StatusErr(r))

retryPolicy(r, err) ==
    IF err # Nil
    THEN IF /\ err.kind = "transport"
            /\ err.urlError
            /\ \/ err.msg = "redirects"
               \/ err.msg = "scheme"
               \/ err.cause = "unknownAuthority"
         THEN Decision(FALSE, err)
         ELSE Decision(TRUE, err)
    ELSE IF r.status = 0 \/ (r.status >= 500 /\ r.status # 501)
         THEN Decision(TRUE, StatusErr(r))
         ELSE IF r.status < 200 \/ r.status >= 300
              THEN Decision(FALSE, StatusErr(r))
              ELSE Decision(FALSE, Nil)

\* retryers: c.RequestRetryer may be nil
NilRetryer == [kind |-> "nil", MaxRetryAttempts |-> 0, RetryDelay |-> 0]
NewNopRequestRetryer == [kind |-> "nop", MaxRetryAttempts |-> 0, RetryDelay |-> 0]
NewConstantRequestRetryer(maxRetries, delay) ==
    [kind |-> "constant", MaxRetryAttempts |-> maxRetries, RetryDelay |-> delay]
defaultRequestRetryer == NewNopRequestRetryer

ConstantRetryers ==
    {NewConstantRequestRetryer(m, d) : m \in 0..MaxRetryBound, d \in 0..MaxDelayBound}
Retryers == {NilRetryer, NewNopRequestRetryer} \cup ConstantRetryers

\* CheckRetry passing on retryPolicy's decision as well as its error
NopCheckRetry_policyDecides(done, r, attemptNum, err) ==
    LET e == IF err = Nil /\ done THEN CtxErr ELSE err
    IN  retryPolicy(r, e)

NopCheckRetry(done, r, attemptNum, err) ==
    LET e == IF err = Nil /\ done THEN CtxErr ELSE err
    IN  Decision(FALSE, retryPolicy(r, e).err)

NopBackoff(attemptNum, r) == 0

\* Backoff growing with the attempt number
ConstantBackoff_linear(rt, attemptNum, r) == rt.RetryDelay * attemptNum

ConstantBackoff(rt, attemptNum, r) == rt.RetryDelay

\* the limit compared with > instead of >=
ConstantCheckRetry_offByOne(rt, done, r, attemptNum, err) ==
    IF done
    THEN Decision(FALSE, CtxErr)
    ELSE LET p == retryPolicy(r, err)
         IN  IF attemptNum > rt.MaxRetryAttempts
             THEN Decision(FALSE, p.err)
             ELSE Decision(p.retry, p.err)

\* the limit reported as an error of its own, whatever the classification
ConstantCheckRetry_limitError(rt, done, r, attemptNum, err) ==
    IF done
    THEN Decision(FALSE, CtxErr)
    ELSE IF attemptNum >= rt.MaxRetryAttempts
         THEN Decision(FALSE, [kind |-> "limit", attempts |-> rt.MaxRetryAttempts])
         ELSE retryPolicy(r, err)

ConstantCheckRetry(rt, done, r, attemptNum, err) ==
    IF done
    THEN Decision(FALSE, CtxErr)
    ELSE LET p == retryPolicy(r, err)
         IN  IF attemptNum >= rt.MaxRetryAttempts
             THEN Decision(FALSE, p.err)
             ELSE Decision(p.retry, p.err)

\* retry.go and part_006: the retryPolicy of the earlier retryers, which
\* drops a retryable transport error and accepts every status below 500
retryPolicy_v1(r, err) ==
    IF err # Nil
    THEN IF /\ err.kind = "transport"
            /\ err.urlError
            /\ \/ err.msg = "redirects"
               \/ err.msg = "scheme"
               \/ err.cause = "unknownAuthority"
         THEN Decision(FALSE, err)
         ELSE Decision(TRUE, Nil)
    ELSE IF r.status = 0 \/ (r.status >= 500 /\ r.status # 501)
         THEN Decision(TRUE, StatusErr(r))
         ELSE Decision(FALSE, Nil)

\* fmt.Errorf("attempts limit (%d) axided", r.MaxRetryAttempts)
LimitErr(rt) == [kind |-> "limit", attempts |-> rt.MaxRetryAttempts]

\* LinearRetry.CheckRetry of part_006, the same as ConstantRetry.CheckRetry
\* of retry.go
LinearRetryCheckRetry(rt, done, r, attemptNum, err) ==
    IF done
    THEN Decision(FALSE, CtxErr)
    ELSE IF attemptNum >= rt.MaxRetryAttempts
         THEN Decision(FALSE, LimitErr(rt))
         ELSE Decision(retryPolicy_v1(r, err).retry, Nil)

\* the bounded retryers of the repository by the file that holds them;
\* ConstantRetry of config.go is ConstantRequestRetryer under its earlier name
RetryerVariants == {"part_004", "config.go", "retry.go", "part_006"}
VariantCheckRetry(variant, rt, done, r, attemptNum, err) ==
    IF variant = "part_004" \/ variant = "config.go"
    THEN ConstantCheckRetry(rt, done, r, attemptNum, err)
    ELSE LinearRetryCheckRetry(rt, done, r, attemptNum, err)

\* dispatch through the RequestRetryer interface
CheckRetry(rt, done, r, attemptNum, err) ==
    IF rt.kind = "constant"
    THEN ConstantCheckRetry(rt, done, r, attemptNum, err)
    ELSE NopCheckRetry(done, r, attemptNum, err)

Backoff(rt, attemptNum, r) ==
    IF rt.kind = "constant"
    THEN ConstantBackoff(rt, attemptNum, r)
    ELSE NopBackoff(attemptNum, r)

\* ------------------------------------------------------------------------
\* Jitter backoffs (documentation, section 4.3)
\* ------------------------------------------------------------------------
RECURSIVE Pow2(_)
Pow2(n) == IF n = 0 THEN 1 ELSE 2 * Pow2(n - 1)

MaxDuration == Pow2(DurationBits - 1) - 1
\* signed arithmetic of DurationBits bits wraps around
WrapDuration(x) ==
    ((x + Pow2(DurationBits - 1)) % Pow2(DurationBits)) - Pow2(DurationBits - 1)
\* the conversion of a fractional duration drops the fraction
TruncDiv(a, b) == IF a >= 0 THEN a \div b ELSE -((-a) \div b)
Min(a, b) == IF a <= b THEN a ELSE b

\* jitter = random[0,1) * span, the random number being j / JitterSteps
Jitter(j, span) == TruncDiv(j * span, JitterSteps)

\* all variants first look for a Retry-After header when the status is 429
RetryAfterApplies(r) ==
    r.present /\ r.status = 429 /\ r.retryAfter.kind = "seconds"
RetryAfterDelay(r) == r.retryAfter.secs * Second

LinearJitterSpan(minDelay, maxDelay) == maxDelay - minDelay

\* the jitter drawn over maxDelay instead of maxDelay - minDelay
LinearJitterBackoff_spanIsMax(minDelay, maxDelay, attemptNum, r, j) ==
    IF RetryAfterApplies(r)
    THEN RetryAfterDelay(r)
    ELSE WrapDuration((minDelay + Jitter(j, maxDelay)) * attemptNum)

\* delay = (minDelay + jitter) * attemptNumber
LinearJitterBackoff(minDelay, maxDelay, attemptNum, r, j) ==
    IF RetryAfterApplies(r)
    THEN RetryAfterDelay(r)
    ELSE WrapDuration((minDelay + Jitter(j, LinearJitterSpan(minDelay, maxDelay)))
                          * attemptNum)

\* the exponential bound not capped by maxDelay
ExponentialJitterSpan_noCap(minDelay, maxDelay, attemptNum) ==
    LET base == WrapDuration(minDelay * attemptNum)
        capped == WrapDuration(base * Pow2(attemptNum))
        cappedMax == IF minDelay > capped THEN maxDelay ELSE capped
    IN  cappedMax - minDelay

\* the bound without the fallback to maxDelay
ExponentialJitterSpan_noFallback(minDelay, maxDelay, attemptNum) ==
    LET base == WrapDuration(minDelay * attemptNum)
        capped == Min(maxDelay, WrapDuration(base * Pow2(attemptNum)))
    IN  capped - minDelay

\* base = minDelay * attemptNumber; cappedMax = min(maxDelay, base * 2^attemptNumber);
\* if minDelay > cappedMax, cappedMax = maxDelay; the span is cappedMax - minDelay
ExponentialJitterSpan(minDelay, maxDelay, attemptNum) ==
    LET base == WrapDuration(minDelay * attemptNum)
        capped == Min(maxDelay, WrapDuration(base * Pow2(attemptNum)))
        cappedMax == IF minDelay > capped THEN maxDelay ELSE capped
    IN  cappedMax - minDelay

\* delay = minDelay + random[0,1) * (cappedMax - minDelay)
ExponentialJitterBackoff(minDelay, maxDelay, attemptNum, r, j) ==
    IF RetryAfterApplies(r)
    THEN RetryAfterDelay(r)
    ELSE minDelay + Jitter(j, ExponentialJitterSpan(minDelay, maxDelay, attemptNum))

\* ------------------------------------------------------------------------
\* config.go and the request CallWithContext builds
\* ------------------------------------------------------------------------
BaseURLV3 == "https://api.client.ch/v3"
defaultRetryMax == 4
NewConfig(publicKey, secret) ==
    [publicKey |-> publicKey, secret |-> secret, BaseURL |-> BaseURLV3,
     RetryMax |-> defaultRetryMax]
\* the configurations of a client; nothing reads RetryMax, so it varies only
\* for the client without a retryer
Configs(rt) ==
    {NewConfig("public key", "secret")}
        \cup (IF rt.kind = "nil"
              THEN {[NewConfig("public key", "secret") EXCEPT !.RetryMax = m] :
                       m \in 0..MaxRetryBound}
              ELSE {})

\* json.Marshal(newRPCRequest(method, params, "1"))
newRPCRequest(method, id) == [jsonrpc |-> "2.0", method |-> method, id |-> id]
NoPayload == [jsonrpc |-> "", method |-> "", id |-> ""]

\* base64(publicKey ":" hex(hmac-sha256(secret, base64url(body))))
signRequestBody(publicKey, secret, body) ==
    [encoding |-> "base64", publicKey |-> publicKey,
     bodyHash |-> [mac |-> "hmac-sha256", secret |-> secret,
                   data |-> [encoding |-> "base64url", body |-> body]]]
NoSignature == signRequestBody("", "", NoPayload)

\* the three headers of a request
Header(contentType, accept, scheme, signature) ==
    [ContentType |-> contentType, Accept |-> accept,
     Authorization |-> [scheme |-> scheme, signature |-> signature]]
NoHeader == Header("", "", "", NoSignature)

\* bytes.NewReader(body): a stream over the payload and how far it was read
NewReader(body) == [payload |-> body, offset |-> 0]

\* http.NewRequestWithContext(ctx, http.MethodPost, url, bytes.NewReader(body))
NewRequestWithContext(method, url, body) ==
    [Method |-> method, URL |-> url, Header |-> NoHeader, Body |-> NewReader(body)]
NoRequest == NewRequestWithContext("", "", NoPayload)

\* the request CallWithContext hands to sendRequest
SignedRequest(cfg) ==
    LET body == newRPCRequest("any.method", "1")
        r == NewRequestWithContext("POST", cfg.BaseURL, body)
        signature == signRequestBody(cfg.publicKey, cfg.secret, body)
    IN  [r EXCEPT !.Header = Header("application/json; charset=utf-8",
                                    "application/json; charset=utf-8",
                                    "Basic", signature)]

\* the head of the loop: req.Body is read and stored back, wrapped only if it
\* were no io.ReadCloser
reframeBody(r) == [r EXCEPT !.Body = r.Body]

\* httpreq := *req; req = &httpreq: a shallow copy that shares the Body
copyRequest(r) == r

\* ------------------------------------------------------------------------
\* client.go: state of one logical call
\* ------------------------------------------------------------------------
VARIABLES
    Config,          \* apiClient.Config
    RequestRetryer,  \* apiClient.RequestRetryer
    entry,           \* "Call" or "CallWithContext"
    ctxDone,         \* req.Context().Err() != nil
    pc,              \* position of sendRequest
    attempt,         \* var attempt int
    resp,            \* var resp *http.Response
    doErr,           \* var doErr error
    shouldRetry,     \* var shouldRetry bool
    checkErr,        \* var checkErr error
    wait,            \* wait := retry.Backoff(attempt, resp)
    timerReady,      \* the channel of time.After(wait) is ready
    exchanges,       \* number of calls of c.HTTPClient.Do
    closedBodies,    \* attempts whose response body was closed
    idleClosed,      \* number of calls of CloseIdleConnections
    ret,             \* the error the call returned
    v,               \* the result the envelope was decoded into
    decoded,         \* what the decode step found, "none" if it did not run
    outcomes,        \* history: the outcome of every exchange
    waitCancel,      \* history: the cancellation that fired during a wait
    startDone,       \* history: the context was done when the call started
    decisionDone,    \* history: the context was done at the last CheckRetry
    req,             \* the *http.Request the loop holds
    sent,            \* history: the request as handed to each c.HTTPClient.Do
    signCalls,       \* history: number of calls of signRequestBody
    drainFailed,     \* the drainBody of this iteration logged a read error
    calls,           \* the locals of the sendRequest of each concurrent Call
    probe            \* a direct call of CheckRetry and what it returned

vars == <<Config, RequestRetryer, entry, ctxDone, pc, attempt, resp, doErr,
          shouldRetry, checkErr, wait, timerReady, exchanges, closedBodies,
          idleClosed, ret, v, decoded, outcomes, waitCancel, startDone,
          decisionDone, req, sent, signCalls, drainFailed, calls, probe>>

config == <<Config, RequestRetryer, entry>>
request == <<req, sent, signCalls>>
history == <<outcomes, waitCancel, startDone, decisionDone>>

NoProbe == [kind |-> "none"]
NoWaitCancel == [at |-> 0, timer |-> FALSE]

\* retry := c.RequestRetryer; if retry == nil { retry = defaultRequestRetryer }
retry == IF RequestRetryer.kind = "nil" THEN defaultRequestRetryer ELSE RequestRetryer

\* Call passes context.Background(), which is never done; CallWithContext
\* takes the caller's context, which may be done already
Init ==
    /\ RequestRetryer \in Retryers
    /\ Config \in Configs(RequestRetryer)
    /\ entry \in {"Call", "CallWithContext"}
    /\ ctxDone \in (IF entry = "Call" THEN {FALSE} ELSE BOOLEAN)
    /\ startDone = ctxDone
    /\ pc = "Start"
    /\ attempt = 0
    /\ resp = NilResp
    /\ doErr = Nil
    /\ shouldRetry = FALSE
    /\ checkErr = Nil
    /\ wait = 0
    /\ timerReady = FALSE
    /\ exchanges = 0
    /\ closedBodies = {}
    /\ idleClosed = 0
    /\ ret = NotReturned
    /\ v = ""
    /\ decoded = "none"
    /\ outcomes = <<>>
    /\ waitCancel = NoWaitCancel
    /\ decisionDone = FALSE
    /\ req = NoRequest
    /\ sent = <<>>
    /\ signCalls = 0
    /\ drainFailed = FALSE
    /\ calls = <<>>
    /\ probe = NoProbe

\* the caller cancels the context (or its deadline passes)
Cancel ==
    /\ entry = "CallWithContext"
    /\ pc # "Done"
    /\ ~ctxDone
    /\ ctxDone' = TRUE
    /\ waitCancel' = IF pc = "Waiting"
                     THEN [at |-> attempt, timer |-> timerReady]
                     ELSE waitCancel
    /\ UNCHANGED <<config, calls, request, drainFailed, pc, attempt, resp, doErr, shouldRetry, checkErr, wait,
                   timerReady, exchanges, closedBodies, idleClosed, ret, v,
                   decoded, outcomes, startDone, decisionDone, probe>>

\* the head of the loop up to the call of c.HTTPClient.Do: attempt++, the
\* body re-framing, and the exchange is issued
IssueAttempt(r) ==
    /\ attempt' = attempt + 1
    /\ sent' = Append(sent, reframeBody(r))
    /\ drainFailed' = FALSE
    /\ exchanges' = exchanges + 1
    /\ pc' = "Attempting"

\* CallWithContext builds and signs the request and enters sendRequest
CallWithContext ==
    /\ pc = "Start"
    /\ signCalls' = signCalls + 1
    /\ req' = SignedRequest(Config)
    /\ IssueAttempt(req')
    /\ UNCHANGED <<config, calls, ctxDone, resp, doErr, shouldRetry, checkErr, wait,
                   timerReady, closedBodies, idleClosed, ret, v, decoded,
                   history, probe>>

\* c.HTTPClient.Do returns: a response and no error, or no response and an
\* error; the error of a done context is possible only when it is done
DoReturns ==
    /\ pc = "Attempting"
    /\ \/ \E r \in Responses :
             /\ resp' = r /\ doErr' = Nil
             /\ req' = [req EXCEPT !.Body.offset = PayloadLen]
       \/ \E e \in DoErrors \cup (IF ctxDone THEN {CtxTransportErr} ELSE {}),
             n \in {req.Body.offset, PayloadLen} :
             /\ resp' = NilResp /\ doErr' = e
             /\ req' = [req EXCEPT !.Body.offset = n]
    /\ outcomes' = Append(outcomes, [resp |-> resp', err |-> doErr'])
    /\ pc' = "Deciding"
    /\ UNCHANGED <<config, calls, sent, signCalls, drainFailed, ctxDone, attempt, shouldRetry, checkErr, wait,
                   timerReady, exchanges, closedBodies, idleClosed, ret, v,
                   decoded, waitCancel, startDone, decisionDone, probe>>

\* drainBody closes the body whether or not the read failed
drainBody(closed, n) == closed \cup {n}

\* io.LimitReader(body, int64(4096))
DrainLimit == 4096
\* a response body: its length, and the offset at which a read fails instead
\* of returning data or the end of the body (NoFailure: no read fails)
NoFailure == -1
Body(length, failAt) == [length |-> length, failAt |-> failAt]
DrainBodies ==
    {Body(n, f) : n \in {0, 1, DrainLimit - 1, DrainLimit, DrainLimit + 1, 2 * DrainLimit},
                  f \in {NoFailure, 0, 1, DrainLimit - 1, DrainLimit, DrainLimit + 1}}
        \ {Body(n, f) : n \in 0..0, f \in {1}}

\* the drain reading the body to its end
drainBodyResult_noLimit(b) ==
    LET failed == b.failAt # NoFailure /\ b.failAt <= b.length
    IN  [read |-> IF failed THEN b.failAt ELSE b.length,
         logged |-> failed,
         closed |-> TRUE]

\* drainBody: io.Copy from a reader limited to DrainLimit bytes, a read error
\* is logged, and the deferred Close runs either way
drainBodyResult(b) ==
    LET limit == IF b.length <= DrainLimit THEN b.length ELSE DrainLimit
        failed == b.failAt # NoFailure /\ b.failAt <= b.length /\ b.failAt < DrainLimit
    IN  [read |-> IF failed THEN b.failAt ELSE limit,
         logged |-> failed,
         closed |-> TRUE]
\* what a drain of some body leaves in the log: a read error or none
DrainLogs == {drainBodyResult(b).logged : b \in DrainBodies}

\* retry.CheckRetry, the break, and on retry drainBody and retry.Backoff up
\* to the select
Decide ==
    /\ pc = "Deciding"
    /\ LET d == CheckRetry(retry, ctxDone, resp, attempt, doErr)
       IN  /\ shouldRetry' = d.retry
           /\ checkErr' = d.err
           /\ decisionDone' = ctxDone
           /\ IF ~d.retry
              THEN /\ pc' = "Finalizing"
                   /\ UNCHANGED <<closedBodies, wait, timerReady>>
              ELSE /\ closedBodies' = IF doErr = Nil
                                      THEN drainBody(closedBodies, attempt)
                                      ELSE closedBodies
                   /\ wait' = Backoff(retry, attempt, resp)
                   /\ timerReady' = (wait' = 0)
                   /\ pc' = "Waiting"
           /\ IF d.retry /\ doErr = Nil
              THEN drainFailed' \in DrainLogs
              ELSE UNCHANGED drainFailed
    /\ UNCHANGED <<config, calls, request, ctxDone, attempt, resp, doErr, exchanges, idleClosed,
                   ret, v, decoded, outcomes, waitCancel, startDone, probe>>

\* the timer of time.After(wait) fires while the select is blocked; a select
\* that a done context has woken is no longer waiting for it
TimerFires ==
    /\ pc = "Waiting"
    /\ ~timerReady
    /\ ~ctxDone
    /\ timerReady' = TRUE
    /\ UNCHANGED <<config, calls, request, drainFailed, ctxDone, pc, attempt, resp, doErr, shouldRetry,
                   checkErr, wait, exchanges, closedBodies, idleClosed, ret, v,
                   decoded, history, probe>>

\* the cases of the select that are ready; Go picks one of them at random
selectReady(done, timer) ==
    (IF done THEN {"ctx"} ELSE {}) \cup (IF timer THEN {"timer"} ELSE {})

\* the Done case without its return: the loop goes on
SelectDone_noReturn ==
    /\ pc = "Waiting"
    /\ "ctx" \in selectReady(ctxDone, timerReady)
    /\ idleClosed' = idleClosed + 1
    /\ req' = copyRequest(req)
    /\ IssueAttempt(req')
    /\ timerReady' = FALSE
    /\ UNCHANGED <<config, calls, signCalls, ctxDone, resp, doErr, shouldRetry, checkErr, wait,
                   closedBodies, ret, v, decoded, history, probe>>

\* the Done case returning without CloseIdleConnections
SelectDone_noClose ==
    /\ pc = "Waiting"
    /\ "ctx" \in selectReady(ctxDone, timerReady)
    /\ ret' = CtxErr
    /\ pc' = "Done"
    /\ UNCHANGED <<config, calls, request, drainFailed, ctxDone, attempt, resp, doErr,
                   shouldRetry, checkErr, wait, timerReady, exchanges,
                   closedBodies, idleClosed, v, decoded, history, probe>>

\* case <-req.Context().Done()
SelectDone ==
    /\ pc = "Waiting"
    /\ "ctx" \in selectReady(ctxDone, timerReady)
    /\ idleClosed' = idleClosed + 1
    /\ ret' = CtxErr
    /\ pc' = "Done"
    /\ UNCHANGED <<config, calls, request, drainFailed, ctxDone, attempt, resp, doErr, shouldRetry, checkErr,
                   wait, timerReady, exchanges, closedBodies, v, decoded,
                   history, probe>>

\* the timer case starting the wait over instead of the next iteration
SelectTimer_rearm ==
    /\ pc = "Waiting"
    /\ "timer" \in selectReady(ctxDone, timerReady)
    /\ timerReady' = FALSE
    /\ UNCHANGED <<config, calls, request, drainFailed, ctxDone, pc, attempt, resp,
                   doErr, shouldRetry, checkErr, wait, exchanges, closedBodies,
                   idleClosed, ret, v, decoded, history, probe>>

\* the next iteration starting before the timer has fired
SelectTimer_noWait ==
    /\ pc = "Waiting"
    /\ req' = copyRequest(req)
    /\ IssueAttempt(req')
    /\ timerReady' = FALSE
    /\ UNCHANGED <<config, calls, signCalls, ctxDone, resp, doErr,
                   shouldRetry, checkErr, wait, closedBodies, idleClosed, ret,
                   v, decoded, history, probe>>

\* the next iteration signing the request again
SelectTimer_resigns ==
    /\ pc = "Waiting"
    /\ "timer" \in selectReady(ctxDone, timerReady)
    /\ req' = copyRequest(req)
    /\ signCalls' = signCalls + 1
    /\ IssueAttempt(req')
    /\ timerReady' = FALSE
    /\ UNCHANGED <<config, calls, ctxDone, resp, doErr, shouldRetry,
                   checkErr, wait, closedBodies, idleClosed, ret, v, decoded,
                   history, probe>>

\* case <-time.After(wait), then the next iteration up to Do
SelectTimer ==
    /\ pc = "Waiting"
    /\ "timer" \in selectReady(ctxDone, timerReady)
    /\ req' = copyRequest(req)
    /\ IssueAttempt(req')
    /\ timerReady' = FALSE
    /\ UNCHANGED <<config, calls, signCalls, ctxDone, resp, doErr, shouldRetry, checkErr, wait,
                   closedBodies, idleClosed, ret, v, decoded, history, probe>>

\* the exit error wrapped in the giving-up message
exitError_wrapped(de, ce, n) ==
    LET err == IF ce # Nil THEN ce ELSE de
    IN  IF err = Nil THEN GivingUpErr(n)
        ELSE [kind |-> "givingUp", attempts |-> n, cause |-> err]

\* the error of the non-success exit of sendRequest
exitError(de, ce, n) ==
    LET err == IF ce # Nil THEN ce ELSE de
    IN  IF err = Nil THEN GivingUpErr(n) ELSE err

\* the decode step without the check of rpcResponse.Error
decodeEnvelope_noErrorCheck(b) ==
    IF b.kind = "malformed" THEN DecodeErr ELSE Nil

\* json.NewDecoder(resp.Body).Decode(rpcResponse) and the check of Error
decodeEnvelope(b) ==
    IF b.kind = "malformed" THEN DecodeErr
    ELSE IF b.kind = "error" THEN RPCErr(b)
    ELSE Nil

\* the code after the loop
Finalize ==
    /\ pc = "Finalizing"
    /\ IF doErr = Nil /\ checkErr = Nil /\ ~shouldRetry
       THEN /\ decoded' = resp.body.kind
            /\ ret' = decodeEnvelope(resp.body)
            /\ v' = IF resp.body.kind = "result" THEN resp.body.value ELSE v
            /\ UNCHANGED <<idleClosed, closedBodies, drainFailed>>
       ELSE /\ idleClosed' = idleClosed + 1
            /\ IF resp.present
               THEN drainFailed' \in DrainLogs
               ELSE UNCHANGED drainFailed
            /\ closedBodies' = IF resp.present
                               THEN drainBody(closedBodies, attempt)
                               ELSE closedBodies
            /\ ret' = exitError(doErr, checkErr, attempt)
            /\ UNCHANGED <<decoded, v>>
    /\ pc' = "Done"
    /\ UNCHANGED <<config, calls, request, ctxDone, attempt, resp, doErr, shouldRetry,
                   checkErr, wait, timerReady, exchanges, history, probe>>

Next ==
    \/ Cancel
    \/ CallWithContext
    \/ DoReturns
    \/ Decide
    \/ TimerFires
    \/ SelectDone
    \/ SelectTimer
    \/ Finalize

Spec == Init /\ [][Next]_vars

\* the steps of the goroutine that runs the call
Progress ==
    \/ CallWithContext
    \/ Decide
    \/ SelectDone
    \/ SelectTimer
    \/ Finalize

\* every HTTP exchange completes, every backoff timer fires, and the
\* goroutine of the call keeps running; the caller may cancel or not
LiveSpec ==
    /\ Init
    /\ [][Next]_vars
    /\ WF_vars(DoReturns)
    /\ WF_vars(TimerFires)
    /\ WF_vars(Progress)

TypeOK ==
    /\ pc \in {"Start", "Attempting", "Deciding", "Waiting", "Finalizing", "Done"}
    /\ attempt \in 0..(MaxRetryBound + 1)
    /\ ret = NotReturned <=> pc # "Done"

\* ------------------------------------------------------------------------
\* Direct calls of CheckRetry, as the unit tests of the retryers make them
\* ------------------------------------------------------------------------
ProbeInit ==
    /\ RequestRetryer = NilRetryer
    /\ Config = NewConfig("public key", "secret")
    /\ entry = "Call"
    /\ ctxDone = FALSE
    /\ startDone = FALSE
    /\ pc = "Start"
    /\ attempt = 0
    /\ resp = NilResp
    /\ doErr = Nil
    /\ shouldRetry = FALSE
    /\ checkErr = Nil
    /\ wait = 0
    /\ timerReady = FALSE
    /\ exchanges = 0
    /\ closedBodies = {}
    /\ idleClosed = 0
    /\ ret = NotReturned
    /\ v = ""
    /\ decoded = "none"
    /\ outcomes = <<>>
    /\ waitCancel = NoWaitCancel
    /\ decisionDone = FALSE
    /\ req = NoRequest
    /\ sent = <<>>
    /\ signCalls = 0
    /\ drainFailed = FALSE
    /\ calls = <<>>
    /\ probe = NoProbe

\* the outcomes CheckRetry is called with: a response and no error, or an
\* error next to no response or next to a response
ProbeOutcomes ==
    {[resp |-> r, err |-> Nil] : r \in ProbeResponses}
        \cup {[resp |-> r, err |-> e] :
                 r \in {NilResp, Response(200, MalformedBody), Response(400, MalformedBody)},
                 e \in AllTransportErrors}

ProbeCheckRetry ==
    /\ probe = NoProbe
    /\ \E rt \in {NewNopRequestRetryer} \cup ConstantRetryers, done \in BOOLEAN,
          n \in 0..MaxProbeAttempt, o \in ProbeOutcomes :
          probe' = [kind |-> "CheckRetry", retryer |-> rt, done |-> done,
                    resp |-> o.resp, attemptNum |-> n, err |-> o.err,
                    out |-> CheckRetry(rt, done, o.resp, n, o.err)]
    /\ UNCHANGED <<config, calls, request, drainFailed, ctxDone, pc, attempt, resp, doErr, shouldRetry,
                   checkErr, wait, timerReady, exchanges, closedBodies,
                   idleClosed, ret, v, decoded, history>>

\* a direct call of retryPolicy, as Test_retryPolicy_* make it
ProbeRetryPolicy ==
    /\ probe = NoProbe
    /\ \E o \in ProbeOutcomes :
          probe' = [kind |-> "retryPolicy", resp |-> o.resp, err |-> o.err,
                    out |-> retryPolicy(o.resp, o.err)]
    /\ UNCHANGED <<config, calls, request, drainFailed, ctxDone, pc, attempt, resp, doErr, shouldRetry,
                   checkErr, wait, timerReady, exchanges, closedBodies,
                   idleClosed, ret, v, decoded, history>>

\* a direct call of Backoff, as TestNoRetry_Backoff and
\* TestConstantRetry_Backoff make it
ProbeBackoff ==
    /\ probe = NoProbe
    /\ \E rt \in {NewNopRequestRetryer} \cup ConstantRetryers,
          n \in 0..MaxProbeAttempt, r \in BackoffResponses :
          probe' = [kind |-> "Backoff", retryer |-> rt, attemptNum |-> n,
                    resp |-> r, out |-> Backoff(rt, n, r)]
    /\ UNCHANGED <<config, calls, request, drainFailed, ctxDone, pc, attempt, resp, doErr, shouldRetry,
                   checkErr, wait, timerReady, exchanges, closedBodies,
                   idleClosed, ret, v, decoded, history>>

\* a direct call of CheckRetry of one of the bounded retryers of the repository
ProbeVariantCheckRetry ==
    /\ probe = NoProbe
    /\ \E variant \in RetryerVariants, m \in 0..MaxRetryBound, done \in BOOLEAN,
          n \in 0..MaxProbeAttempt, o \in ProbeOutcomes :
          probe' = [kind |-> "VariantCheckRetry", variant |-> variant,
                    retryer |-> NewConstantRequestRetryer(m, 0), done |-> done,
                    resp |-> o.resp, attemptNum |-> n, err |-> o.err,
                    out |-> VariantCheckRetry(variant, NewConstantRequestRetryer(m, 0),
                                              done, o.resp, n, o.err)]
    /\ UNCHANGED <<config, calls, request, drainFailed, ctxDone, pc, attempt, resp,
                   doErr, shouldRetry, checkErr, wait, timerReady, exchanges,
                   closedBodies, idleClosed, ret, v, decoded, history>>

\* a direct call of drainBody
ProbeDrainBody ==
    /\ probe = NoProbe
    /\ \E b \in DrainBodies :
          probe' = [kind |-> "drainBody", body |-> b, out |-> drainBodyResult(b)]
    /\ UNCHANGED <<config, calls, request, drainFailed, ctxDone, pc, attempt, resp,
                   doErr, shouldRetry, checkErr, wait, timerReady, exchanges,
                   closedBodies, idleClosed, ret, v, decoded, history>>

\* a direct call of LinearJitterBackoff, as TestLinearJitterBackoff makes it
ProbeLinearJitterBackoff ==
    /\ probe = NoProbe
    /\ \E mn \in 0..MaxDur, mx \in 0..MaxDur, n \in 0..MaxBackoffAttempt,
          r \in BackoffResponses, j \in 0..(JitterSteps - 1) :
          probe' = [kind |-> "LinearJitterBackoff", min |-> mn, max |-> mx,
                    attemptNum |-> n, resp |-> r, jitter |-> j,
                    span |-> LinearJitterSpan(mn, mx),
                    out |-> LinearJitterBackoff(mn, mx, n, r, j)]
    /\ UNCHANGED <<config, calls, request, drainFailed, ctxDone, pc, attempt, resp, doErr, shouldRetry,
                   checkErr, wait, timerReady, exchanges, closedBodies,
                   idleClosed, ret, v, decoded, history>>

\* a direct call of ExponentialJitterBackoff, as TestExponentialJitterBackoff
\* makes it
ProbeExponentialJitterBackoff ==
    /\ probe = NoProbe
    /\ \E mn \in 0..MaxDur, mx \in 0..MaxDur, n \in 0..MaxBackoffAttempt,
          r \in BackoffResponses, j \in 0..(JitterSteps - 1) :
          probe' = [kind |-> "ExponentialJitterBackoff", min |-> mn, max |-> mx,
                    attemptNum |-> n, resp |-> r, jitter |-> j,
                    span |-> ExponentialJitterSpan(mn, mx, n),
                    out |-> ExponentialJitterBackoff(mn, mx, n, r, j)]
    /\ UNCHANGED <<config, calls, request, drainFailed, ctxDone, pc, attempt, resp, doErr, shouldRetry,
                   checkErr, wait, timerReady, exchanges, closedBodies,
                   idleClosed, ret, v, decoded, history>>

ProbeNext ==
    \/ ProbeCheckRetry
    \/ ProbeRetryPolicy
    \/ ProbeBackoff
    \/ ProbeLinearJitterBackoff
    \/ ProbeExponentialJitterBackoff
    \/ ProbeVariantCheckRetry
    \/ ProbeDrainBody

ProbeSpec == ProbeInit /\ [][ProbeNext]_vars

\* the calls of a client together with the direct calls of its retryers: a
\* test either probes a retryer or makes a call
ClientNext ==
    \/ probe = NoProbe /\ Next
    \/ /\ RequestRetryer = NilRetryer
       /\ Config = NewConfig("public key", "secret")
       /\ entry = "Call"
       /\ pc = "Start"
       /\ ProbeNext

ClientSpec == Init /\ [][ClientNext]_vars

\* ------------------------------------------------------------------------
\* Properties
\* ------------------------------------------------------------------------
Last == outcomes[Len(outcomes)]
Max(a, b) == IF a >= b THEN a ELSE b

\* the outcomes the documentation calls transient
RetryableStatus(s) == s = 0 \/ (s >= 500 /\ s <= 599 /\ s # 501)
RetryableOutcome(o) ==
    \/ o.err = Nil /\ RetryableStatus(o.resp.status)
    \/ o.err = GenericErr
Retryable5xx(o) ==
    o.err = Nil /\ o.resp.status >= 500 /\ o.resp.status <= 599 /\ o.resp.status # 501
\* a 2xx response whose envelope carries a result and no error object
SuccessOutcome(o) ==
    o.err = Nil /\ Is2xx(o.resp.status) /\ o.resp.body.kind = "result"
\* a 2xx response whose envelope carries an error object
ProtocolErrorOutcome(o) ==
    o.err = Nil /\ Is2xx(o.resp.status) /\ o.resp.body.kind = "error"

ProbedConstant ==
    probe.kind = "CheckRetry" /\ probe.retryer.kind = "constant"

\* C1: ConstantRequestRetryer.CheckRetry with a context that is not done
\* returns shouldRetry = false for every attempt number N >= MaxRetryAttempts
\* (MaxRetryAttempts = 0 included), for every status and transport error, and
\* the error is the one retryPolicy classified: the transport error itself,
\* the status error for a status outside 2xx, nil for a 2xx response.
C1_LimitForcesStop ==
    (ProbedConstant /\ ~probe.done
        /\ probe.attemptNum >= probe.retryer.MaxRetryAttempts)
    => /\ probe.out.retry = FALSE
       /\ probe.out.err = retryPolicy(probe.resp, probe.err).err
       /\ probe.err # Nil => probe.out.err = probe.err
       /\ (probe.err = Nil /\ ~Is2xx(probe.resp.status))
              => probe.out.err = StatusErr(probe.resp)
       /\ (probe.err = Nil /\ Is2xx(probe.resp.status)) => probe.out.err = Nil

C1_Witness ==
    /\ ProbedConstant /\ ~probe.done
    /\ probe.retryer.MaxRetryAttempts = 2 /\ probe.attemptNum = 2
    /\ probe.err = Nil /\ probe.resp.status = 500
    /\ probe.out = Decision(FALSE, StatusErr(probe.resp))

\* C2: the attempt counter is 1 at the first exchange, grows by exactly one
\* with every exchange and is never reset, so it always equals the number of
\* exchanges issued; with ConstantRequestRetryer(M, d) it never exceeds
\* max(1, M).
C2_AttemptCountsExchanges ==
    /\ [](/\ attempt = exchanges
          /\ pc # "Start" => attempt >= 1
          /\ Len(outcomes) = (IF pc = "Attempting" THEN exchanges - 1 ELSE exchanges)
          /\ retry.kind = "constant" => attempt <= Max(1, retry.MaxRetryAttempts))
    /\ [][\/ attempt' = attempt /\ exchanges' = exchanges
          \/ attempt' = attempt + 1 /\ exchanges' = exchanges + 1]_vars

C2_Witness ==
    /\ pc = "Done" /\ retry.kind = "constant"
    /\ retry.MaxRetryAttempts = 2 /\ attempt = 2 /\ exchanges = 2

\* C3: with ConstantRequestRetryer(M, d) and a context that is never done, if
\* attempts 1..k-1 end in a retryable outcome and attempt k <= M returns a 2xx
\* response whose envelope has no error object, the call returns nil and the
\* result is the one decoded from the response of attempt k.
C3_SuccessAfterRetry ==
    (/\ pc = "Done" /\ retry.kind = "constant" /\ ~ctxDone
     /\ Len(outcomes) >= 1 /\ Len(outcomes) <= retry.MaxRetryAttempts
     /\ \A i \in 1..(Len(outcomes) - 1) : RetryableOutcome(outcomes[i])
     /\ SuccessOutcome(Last))
    => /\ ret = Nil
       /\ decoded = "result"
       /\ v = Last.resp.body.value
       /\ exchanges = Len(outcomes)

C3_Witness ==
    /\ pc = "Done" /\ retry.kind = "constant" /\ retry.MaxRetryAttempts = 2
    /\ ~ctxDone /\ Len(outcomes) = 2
    /\ outcomes[1] = [resp |-> Response(500, ResultBody("Other")), err |-> Nil]
    /\ outcomes[2] = [resp |-> Response(200, ResultBody("Value")), err |-> Nil]
    /\ ret = Nil /\ v = "Value"

\* C4: with ConstantRequestRetryer(M, d), M >= 1, a context that is never
\* done and a server that answers every attempt with a retryable 5xx status,
\* the call issues exactly M exchanges and returns the status error of the
\* last attempt, not wrapped in any other message.
C4_FailAfterAllRetries ==
    (/\ pc = "Done" /\ retry.kind = "constant" /\ retry.MaxRetryAttempts >= 1
     /\ ~ctxDone
     /\ \A i \in 1..Len(outcomes) : Retryable5xx(outcomes[i]))
    => /\ exchanges = retry.MaxRetryAttempts
       /\ ret = StatusErr(Last.resp)

C4_Witness ==
    /\ pc = "Done" /\ retry.kind = "constant" /\ retry.MaxRetryAttempts = 2
    /\ ~ctxDone /\ Len(outcomes) = 2
    /\ \A i \in 1..2 : outcomes[i].err = Nil /\ outcomes[i].resp.status = 500
    /\ ret = [kind |-> "status", status |-> 500]

C6_NilOnlyOnSuccess ==
    pc = "Done"
    => /\ ret # NotReturned
       /\ ret = Nil <=> /\ Last.err = Nil
                        /\ Last.resp.present
                        /\ Is2xx(Last.resp.status)
                        /\ decoded = "result"

C6_Witness ==
    /\ pc = "Done" /\ ret = Nil /\ Len(outcomes) = 2 /\ Last.resp.status = 204

\* C7 as stated: a 2xx response whose envelope carries an error object is
\* never retried, and the call ends after that attempt with the error
\* "<message> (<code>)".
C7_Original ==
    (Len(outcomes) >= 1 /\ ProtocolErrorOutcome(Last))
    => /\ pc \in {"Deciding", "Finalizing", "Done"}
       /\ exchanges = Len(outcomes)
       /\ pc = "Done" => ret = RPCErr(Last.resp.body)

\* C7 amended: such a response is never retried and the call ends after that
\* attempt; it returns "<message> (<code>)" unless the context was done when
\* CheckRetry ran, and then it returns the cancellation error.
C7_ProtocolErrorNotRetried ==
    (Len(outcomes) >= 1 /\ ProtocolErrorOutcome(Last))
    => /\ pc \in {"Deciding", "Finalizing", "Done"}
       /\ exchanges = Len(outcomes)
       /\ pc = "Done" => ret = (IF decisionDone THEN CtxErr ELSE RPCErr(Last.resp.body))
       /\ decisionDone => entry = "CallWithContext"

C7_Witness ==
    /\ pc = "Done" /\ retry.kind = "constant" /\ retry.MaxRetryAttempts = 3
    /\ attempt = 1 /\ ProtocolErrorOutcome(Last) /\ ~decisionDone
    /\ ret = [kind |-> "rpc", message |-> "test error", code |-> 1]

\* C8 as stated: for both built-in retryers CheckRetry with a context that is
\* already done returns (false, the cancellation error) for every outcome.
C8_CancellationWins ==
    (probe.kind = "CheckRetry" /\ probe.done)
    => probe.out = Decision(FALSE, CtxErr)

\* C9 as stated: once the context is done during the backoff wait, no further
\* exchange is started and the call returns the cancellation error with the
\* idle connections closed, whether or not the timer is ready as well.
C9_Original ==
    waitCancel.at > 0
    => /\ exchanges = waitCancel.at
       /\ pc = "Done" => (ret = CtxErr /\ idleClosed >= 1)

\* C9 amended: when the context becomes done during the backoff wait and the
\* timer is not ready, no further exchange is started and the call returns
\* the cancellation error with the idle connections closed.  When the timer
\* is ready as well (always so for a zero duration) the select may take
\* either case: at most one more exchange is started, and the call still
\* returns the cancellation error with the idle connections closed.
C9_CancelDuringWait ==
    waitCancel.at > 0
    => /\ ~waitCancel.timer => (exchanges = waitCancel.at /\ pc \in {"Waiting", "Done"})
       /\ exchanges <= waitCancel.at + 1
       /\ pc # "Waiting" \/ exchanges = waitCancel.at
       /\ pc = "Done" => (ret = CtxErr /\ idleClosed = 1)

C9_Witness ==
    /\ waitCancel.at = 1 /\ ~waitCancel.timer /\ wait = 1
    /\ pc = "Done" /\ ret = CtxErr /\ idleClosed = 1 /\ exchanges = 1

\* C10 as stated: if the context is done when the call starts, the call
\* returns the cancellation error after at most one exchange and never
\* enters the backoff wait, for the no-op retryer and for
\* ConstantRequestRetryer with any MaxRetryAttempts.
C10_CancelledAtStart ==
    startDone
    => /\ exchanges <= 1
       /\ pc # "Waiting"
       /\ pc = "Done" => ret = CtxErr

ProbedPolicy == probe.kind = "retryPolicy"
\* the three kinds of transport error the documentation calls permanent
PermanentErr(e) ==
    /\ e.kind = "transport"
    /\ e.msg = "redirects" \/ e.msg = "scheme" \/ e.cause = "unknownAuthority"

\* C11 as stated: without a transport error retryPolicy returns
\* retryable = true exactly for status 0 and for 500..599 other than 501; a
\* status of 600 or more is not retryable.
C11_RetryableStatuses ==
    (ProbedPolicy /\ probe.err = Nil)
    => (probe.out.retry <=> RetryableStatus(probe.resp.status))

\* C12: without a transport error retryPolicy returns a nil error exactly
\* for a status in 200..299; for every other status, 0 included, the error is
\* "unexpected HTTP status: <Status>".
C12_NilErrorOnlyFor2xx ==
    (ProbedPolicy /\ probe.err = Nil)
    => /\ probe.out.err = Nil <=> Is2xx(probe.resp.status)
       /\ ~Is2xx(probe.resp.status) => probe.out.err = StatusErr(probe.resp)

C12_Witness ==
    /\ ProbedPolicy /\ probe.err = Nil /\ probe.resp.status = 0
    /\ probe.out.err = [kind |-> "status", status |-> 0]

\* C13 as stated: a transport error of one of the three permanent kinds makes
\* retryPolicy return (false, that error), whatever response accompanies it
\* and whatever the concrete type of the error value is.
C13_Original ==
    (ProbedPolicy /\ probe.err # Nil /\ PermanentErr(probe.err))
    => probe.out = Decision(FALSE, probe.err)

\* C13 amended: a *url.Error of one of the three permanent kinds makes
\* retryPolicy return (false, that error unchanged), whatever response
\* accompanies it; an error of any other type is returned as (true, that
\* error), also when its message matches one of the patterns.
C13_PermanentURLErrors ==
    (ProbedPolicy /\ probe.err # Nil /\ PermanentErr(probe.err))
    => probe.out = Decision(~probe.err.urlError, probe.err)

C13_Witness ==
    /\ ProbedPolicy /\ probe.err = AuthorityErr /\ probe.resp.status = 400
    /\ probe.out = Decision(FALSE, AuthorityErr)

\* C14: a transport error takes precedence over the response: for a
\* transport error that is not of a permanent kind retryPolicy returns
\* (true, that error), also next to a 2xx response, and with a transport
\* error the error returned is never one made from the status.
C14_TransportErrorFirst ==
    (ProbedPolicy /\ probe.err # Nil)
    => /\ probe.out.err = probe.err
       /\ ~PermanentErr(probe.err) => probe.out = Decision(TRUE, probe.err)

C14_Witness ==
    /\ ProbedPolicy /\ probe.err = GenericErr
    /\ probe.resp.present /\ probe.resp.status = 200
    /\ probe.out = Decision(TRUE, GenericErr)

ProbedNop(k) == probe.kind = k /\ probe.retryer.kind = "nop"
\* the loop runs on the no-op retryer: none is configured, or it is configured
NopClient == RequestRetryer.kind = "nil" \/ RequestRetryer.kind = "nop"

C16_ConstantBackoff ==
    (probe.kind = "Backoff" /\ probe.retryer.kind = "constant")
    => probe.out = probe.retryer.RetryDelay

C16_Witness ==
    /\ probe.kind = "Backoff" /\ probe.retryer.kind = "constant"
    /\ probe.retryer.RetryDelay = 1 /\ probe.attemptNum = MaxProbeAttempt
    /\ probe.resp.status = 503
    /\ probe.out = 1

ProbedLinear == probe.kind = "LinearJitterBackoff"
ProbedExponential == probe.kind = "ExponentialJitterBackoff"
\* the product minDelay * n * 2^n does not fit the duration type
ExponentialOverflows ==
    probe.min * probe.attemptNum * Pow2(probe.attemptNum) > MaxDuration

\* C17 as stated: for every backoff variant (constant, linear-jitter,
\* exponential-jitter), when the last response has status 429 and a
\* Retry-After header that parses as a number of seconds, Backoff returns
\* exactly that number of seconds.
C17_RetryAfterHonoured ==
    (/\ \/ probe.kind = "Backoff" /\ probe.retryer.kind = "constant"
        \/ ProbedLinear
        \/ ProbedExponential
     /\ probe.resp.present
     /\ probe.resp.status = 429
     /\ probe.resp.retryAfter.kind = "seconds")
    => probe.out = probe.resp.retryAfter.secs * Second

LinearFits == Max(probe.min, probe.max) * probe.attemptNum <= MaxDuration

C21_BodyFromStart ==
    \A i \in 1..Len(sent) :
        /\ sent[i].Body.payload = newRPCRequest("any.method", "1")
        /\ sent[i].Body.offset = 0

C23_ConfigBoundsAttempts ==
    (RequestRetryer.kind = "nil" /\ entry = "Call" /\ pc = "Done")
    => /\ (RetryableOutcome(Last) /\ Config.RetryMax >= 1)
          => exchanges >= Config.RetryMax
       /\ Config.RetryMax = 0 => exchanges = 1

\* C24 as stated: every response body an attempt obtained is closed by the
\* time the call returns, on every terminal path, and the body of a retried
\* attempt is closed before the next attempt starts.
C24_BodiesClosed ==
    \A i \in 1..Len(outcomes) :
        (outcomes[i].resp.present /\ (pc = "Done" \/ i < attempt))
        => i \in closedBodies

\* C25: the attempts of a call are strictly sequential: attempt N+1 starts
\* only after the outcome of attempt N was passed to CheckRetry, CheckRetry
\* returned shouldRetry = true, the response body of attempt N (if any) was
\* drained and closed, and the backoff wait computed for attempt N elapsed.
C25_Sequential ==
    /\ [](exchanges - Len(outcomes) = (IF pc = "Attempting" THEN 1 ELSE 0))
    /\ [][(attempt' # attempt /\ attempt >= 1)
          => /\ attempt' = attempt + 1
             /\ pc = "Waiting"
             /\ Len(outcomes) = attempt
             /\ Last = [resp |-> resp, err |-> doErr]
             /\ shouldRetry
             /\ CheckRetry(retry, decisionDone, resp, attempt, doErr).retry
             /\ resp.present => attempt \in closedBodies
             /\ wait = Backoff(retry, attempt, resp)
             /\ timerReady]_vars

C25_Witness ==
    /\ pc = "Attempting" /\ attempt = 2
    /\ outcomes[1].resp.present /\ 1 \in closedBodies
    /\ wait = 1 /\ shouldRetry

\* C26: with either built-in retryer every call eventually returns, for
\* every sequence of server outcomes and every cancellation time, provided
\* each HTTP exchange and each backoff timer completes; the number of
\* attempts is bounded by the retryer's limit, so sendRequest cannot loop
\* forever.
C26_Terminates ==
    /\ [](attempt <= Max(1, retry.MaxRetryAttempts))
    /\ <>(pc = "Done")

C26_Witness ==
    /\ pc = "Done"
    /\ RequestRetryer.kind = "constant"
    /\ attempt = RequestRetryer.MaxRetryAttempts /\ attempt >= 3
    /\ RetryableOutcome(Last)

\* C27 as stated: for every bounded retryer of the repository
\* (ConstantRequestRetryer of part_004, ConstantRetry of config.go and of
\* retry.go, LinearRetry of part_006) a 2xx response without transport error
\* on attempt number N = MaxRetryAttempts makes CheckRetry return (false,
\* nil), so a success on the last permitted attempt is no attempts-limit
\* failure.
C27_SuccessOnLastAttempt ==
    (/\ probe.kind = "VariantCheckRetry"
     /\ ~probe.done
     /\ probe.err = Nil /\ probe.resp.present /\ Is2xx(probe.resp.status)
     /\ probe.attemptNum >= 1
     /\ probe.attemptNum = probe.retryer.MaxRetryAttempts)
    => probe.out = Decision(FALSE, Nil)

\* C28: with the built-in retryers of part_004 sendRequest decodes a
\* response body as a JSON-RPC envelope only when the final attempt has no
\* transport error and a status in 200..299; a response with any other
\* status never reaches the decode step and never yields a nil error.
C28_DecodeOnly2xx ==
    /\ decoded # "none"
       => pc = "Done" /\ doErr = Nil /\ Last.err = Nil /\ Is2xx(Last.resp.status)
    /\ (pc = "Done" /\ ~(Last.err = Nil /\ Is2xx(Last.resp.status)))
       => decoded = "none" /\ ret # Nil

C28_Witness ==
    /\ pc = "Done" /\ RequestRetryer.kind = "constant"
    /\ attempt = RequestRetryer.MaxRetryAttempts /\ attempt >= 2
    /\ Last.err = Nil /\ Last.resp.status = 503
    /\ Last.resp.body.kind = "result"
    /\ decoded = "none" /\ ret = StatusErr(Last.resp)

\* C29: CloseIdleConnections is called on every terminal path that returns a
\* classification, transport or cancellation error (fatal classification,
\* exhausted retries, cancellation during the backoff wait) and never on the
\* path that decodes the envelope (success, decode error, protocol error).
C29_IdleConnections ==
    /\ pc # "Done" => idleClosed = 0
    /\ pc = "Done" => idleClosed = (IF decoded = "none" THEN 1 ELSE 0)
    /\ (pc = "Done" /\ decoded = "none")
       => \/ ret = CtxErr
          \/ ret = exitError(doErr, checkErr, attempt)

C29_Witness ==
    /\ pc = "Done" /\ waitCancel.at >= 1 /\ ret = CtxErr
    /\ shouldRetry /\ decoded = "none"
    /\ idleClosed = 1

\* C30: a failure while draining a response body never changes the call's
\* behaviour: drainBody reads at most 4096 bytes and closes the body whether
\* or not the read failed, and the step that drains does the same to the
\* retry decision, the number of attempts and the value returned whether the
\* drain fails or succeeds.
C30_DrainFailureHarmless ==
    /\ [](probe.kind = "drainBody"
          => /\ probe.out.read <= DrainLimit
             /\ probe.out.read <= probe.body.length
             /\ probe.out.closed)
    /\ [][closedBodies' # closedBodies
          => /\ closedBodies' = closedBodies \cup {attempt}
             /\ attempt' = attempt /\ exchanges' = exchanges
             /\ pc = "Deciding"
                => /\ shouldRetry' = CheckRetry(retry, ctxDone, resp, attempt, doErr).retry
                   /\ checkErr' = CheckRetry(retry, ctxDone, resp, attempt, doErr).err
                   /\ wait' = Backoff(retry, attempt, resp)
                   /\ pc' = "Waiting" /\ ret' = ret
             /\ pc = "Finalizing"
                => /\ ret' = exitError(doErr, checkErr, attempt)
                   /\ pc' = "Done"
                   /\ shouldRetry' = shouldRetry /\ checkErr' = checkErr]_vars

C30_Witness ==
    /\ pc = "Done" /\ drainFailed /\ exchanges = 2
    /\ closedBodies = {1, 2}
    /\ ret = exitError(doErr, checkErr, attempt) /\ ret # Nil

\* C31 as stated: sendRequest starts in Attempting with attempt counter 1,
\* Attempting is always followed by Deciding, Deciding by Waiting or
\* Finalizing, Waiting only by Attempting, and the call returns to its caller
\* only from Finalizing.
C31_Original ==
    [][pc' # pc
       => /\ pc = "Start" => (pc' = "Attempting" /\ attempt' = 1)
          /\ pc = "Attempting" => pc' = "Deciding"
          /\ pc = "Deciding" => pc' \in {"Waiting", "Finalizing"}
          /\ pc = "Waiting" => pc' = "Attempting"
          /\ pc' = "Done" => pc = "Finalizing"]_vars

\* C31 amended: sendRequest starts in Attempting with attempt counter 1,
\* Attempting is always followed by Deciding, Deciding by Waiting when the
\* decision is to retry and by Finalizing when it is to stop; Waiting is
\* followed by Attempting with the counter one higher when the timer has
\* fired, or, when the context is done, by the return of the cancellation
\* error with the idle connections closed; the call returns only from
\* Finalizing or from such a cancelled wait.
C31_MachineTransitions ==
    [][pc' # pc
       => /\ pc = "Start" => (pc' = "Attempting" /\ attempt' = 1)
          /\ pc = "Attempting" => pc' = "Deciding"
          /\ pc = "Deciding"
             => /\ pc' \in {"Waiting", "Finalizing"}
                /\ pc' = "Waiting" <=> shouldRetry'
          /\ pc = "Waiting"
             => \/ /\ pc' = "Attempting" /\ timerReady
                   /\ attempt' = attempt + 1
                \/ /\ pc' = "Done" /\ ctxDone
                   /\ ret' = CtxErr /\ idleClosed' = idleClosed + 1
                   /\ exchanges' = exchanges
          /\ pc' = "Done" => pc \in {"Finalizing", "Waiting"}
          /\ pc = "Finalizing" => pc' = "Done"
          /\ pc # "Done"]_vars

\* a call that went from Waiting back to Attempting once and then returned
\* from Waiting
C31_Witness ==
    /\ pc = "Done" /\ shouldRetry /\ ret = CtxErr
    /\ attempt = 2 /\ exchanges = 2

\* C32: with the built-in retryers the synthesized error "giving up after N
\* attempt(s)" is never returned: sendRequest leaves its loop only with the
\* decision to stop, so on the non-success exit the transport error or the
\* CheckRetry error is not nil, and the error returned is the CheckRetry
\* error if there is one and the transport error otherwise.
C32_GivingUpUnreachable ==
    /\ pc = "Finalizing" => ~shouldRetry
    /\ (pc = "Finalizing" /\ ~(doErr = Nil /\ checkErr = Nil /\ ~shouldRetry))
       => /\ doErr # Nil \/ checkErr # Nil
          /\ exitError(doErr, checkErr, attempt) # GivingUpErr(attempt)
    /\ (pc = "Done" /\ decoded = "none" /\ ~shouldRetry)
       => /\ doErr # Nil \/ checkErr # Nil
          /\ ret = (IF checkErr # Nil THEN checkErr ELSE doErr)
    /\ pc = "Done" => ret.kind # "givingUp"

\* the loop was left after a retry with a status error and no transport error
C32_Witness ==
    /\ pc = "Done" /\ decoded = "none" /\ ~shouldRetry
    /\ doErr = Nil /\ checkErr = StatusErr(resp) /\ ret = checkErr
    /\ retry.kind = "constant" /\ attempt = 3

\* C33: in sendRequest with ConstantRequestRetryer, Backoff is called only
\* after an attempt whose outcome retryPolicy classified as retryable and
\* whose number is below MaxRetryAttempts; so it is never called with a
\* response of status 429, of any other 4xx, of 2xx or of 501, and whatever
\* Retry-After header the response carries, the Retry-After branch for
\* status 429 does not apply.
C33_BackoffOnlyAfterRetryable ==
    [][(pc = "Deciding" /\ pc' = "Waiting" /\ retry.kind = "constant")
       => /\ wait' = Backoff(retry, attempt, resp)
          /\ retryPolicy(resp, doErr).retry
          /\ attempt < retry.MaxRetryAttempts
          /\ resp.present
             => /\ resp.status # 429 /\ resp.status # 501
                /\ ~Is2xx(resp.status)
                /\ ~(resp.status >= 400 /\ resp.status <= 499)
          /\ \A h \in RetryAfterHeaders : ~RetryAfterApplies(WithHeader(resp, h))]_vars

\* Backoff was called after the second attempt of a constant retryer
\* answered with 503
C33_Witness ==
    /\ pc = "Waiting" /\ retry.kind = "constant" /\ retry.RetryDelay = 1
    /\ attempt = 2 /\ resp.present /\ resp.status = 503
    /\ wait = retry.RetryDelay

\* ------------------------------------------------------------------------
\* client.go: two Calls running concurrently on one client
\* ------------------------------------------------------------------------
\* the goroutines calling c.Call on the same *apiClient
CallIds == {1, 2}

\* the locals of sendRequest before its loop
NoCall ==
    [pc |-> "Start", attempt |-> 0, resp |-> NilResp, doErr |-> Nil,
     shouldRetry |-> FALSE, checkErr |-> Nil, wait |-> 0, ret |-> NotReturned,
     v |-> "", outcomes |-> <<>>, decisions |-> <<>>]

\* what the server answers to the exchanges of concurrent calls
ConcurrentOutcomes ==
    {[resp |-> r, err |-> Nil] :
        r \in {Response(500, MalformedBody), Response(200, ResultBody("Value")),
               Response(200, ErrorBody), Response(401, MalformedBody)}}
        \cup {[resp |-> NilResp, err |-> e] : e \in {GenericErr, SchemeErr}}

\* the variables of the single call, which two concurrent calls leave alone
oneCall == <<ctxDone, pc, attempt, resp, doErr, shouldRetry, checkErr, wait,
             timerReady, closedBodies, ret, v, decoded, history, request,
             drainFailed, probe>>

ConcurrentInit ==
    /\ RequestRetryer \in Retryers
    /\ Config = NewConfig("public key", "secret")
    /\ entry = "Call"
    /\ ctxDone = FALSE
    /\ startDone = FALSE
    /\ pc = "Start"
    /\ attempt = 0
    /\ resp = NilResp
    /\ doErr = Nil
    /\ shouldRetry = FALSE
    /\ checkErr = Nil
    /\ wait = 0
    /\ timerReady = FALSE
    /\ exchanges = 0
    /\ closedBodies = {}
    /\ idleClosed = 0
    /\ ret = NotReturned
    /\ v = ""
    /\ decoded = "none"
    /\ outcomes = <<>>
    /\ waitCancel = NoWaitCancel
    /\ decisionDone = FALSE
    /\ req = NoRequest
    /\ sent = <<>>
    /\ signCalls = 0
    /\ drainFailed = FALSE
    /\ calls = [c \in CallIds |-> NoCall]
    /\ probe = NoProbe

\* attempt as a counter of the client, shared by its calls
NextAttempt_sharedCounter(c) ==
    [d \in CallIds |->
        [calls[d] EXCEPT !.attempt = @ + 1,
                         !.pc = IF d = c THEN "Attempting" ELSE @]]

\* attempt++ on the local of call c, up to the call of c.HTTPClient.Do
NextAttempt(c) ==
    [calls EXCEPT ![c].attempt = @ + 1, ![c].pc = "Attempting"]

\* Call enters sendRequest under context.Background() and issues its first
\* exchange
CallStart(c) ==
    /\ calls[c].pc = "Start"
    /\ calls' = NextAttempt(c)
    /\ exchanges' = exchanges + 1
    /\ UNCHANGED <<config, oneCall, idleClosed>>

\* c.HTTPClient.Do returns to call c
CallDoReturns(c) ==
    /\ calls[c].pc = "Attempting"
    /\ \E o \in ConcurrentOutcomes :
          calls' = [calls EXCEPT ![c].resp = o.resp, ![c].doErr = o.err,
                                 ![c].outcomes = Append(@, o),
                                 ![c].pc = "Deciding"]
    /\ UNCHANGED <<config, oneCall, exchanges, idleClosed>>

\* retry.CheckRetry, the break, and on retry retry.Backoff, in call c
CallDecide(c) ==
    /\ calls[c].pc = "Deciding"
    /\ LET d == CheckRetry(retry, FALSE, calls[c].resp, calls[c].attempt,
                           calls[c].doErr)
       IN  calls' = [calls EXCEPT
                        ![c].shouldRetry = d.retry,
                        ![c].checkErr = d.err,
                        ![c].decisions = Append(@, d),
                        ![c].wait = IF d.retry
                                    THEN Backoff(retry, calls[c].attempt, calls[c].resp)
                                    ELSE @,
                        ![c].pc = IF d.retry THEN "Waiting" ELSE "Finalizing"]
    /\ UNCHANGED <<config, oneCall, exchanges, idleClosed>>

\* the select of call c: the Done channel of context.Background() is nil, so
\* only the timer case is taken, and the next iteration runs up to Do
CallSelectTimer(c) ==
    /\ calls[c].pc = "Waiting"
    /\ calls' = NextAttempt(c)
    /\ exchanges' = exchanges + 1
    /\ UNCHANGED <<config, oneCall, idleClosed>>

\* the code after the loop, in call c
CallFinalize(c) ==
    /\ calls[c].pc = "Finalizing"
    /\ LET k == calls[c]
       IN  IF k.doErr = Nil /\ k.checkErr = Nil /\ ~k.shouldRetry
           THEN /\ calls' = [calls EXCEPT
                                ![c].ret = decodeEnvelope(k.resp.body),
                                ![c].v = IF k.resp.body.kind = "result"
                                         THEN k.resp.body.value ELSE @,
                                ![c].pc = "Done"]
                /\ UNCHANGED idleClosed
           ELSE /\ calls' = [calls EXCEPT
                                ![c].ret = exitError(k.doErr, k.checkErr, k.attempt),
                                ![c].pc = "Done"]
                /\ idleClosed' = idleClosed + 1
    /\ UNCHANGED <<config, oneCall, exchanges>>

ConcurrentNext ==
    \E c \in CallIds :
        \/ CallStart(c)
        \/ CallDoReturns(c)
        \/ CallDecide(c)
        \/ CallSelectTimer(c)
        \/ CallFinalize(c)

ConcurrentSpec == ConcurrentInit /\ [][ConcurrentNext]_vars

\* sendRequest run alone under context.Background() against the outcomes
\* outs: the attempt, from attempt n on, at which it leaves its loop
\* (0 if outs ends before it does)
RECURSIVE AloneAttempts(_, _, _)
AloneAttempts(rt, outs, n) ==
    IF n > Len(outs) THEN 0
    ELSE IF CheckRetry(rt, FALSE, outs[n].resp, n, outs[n].err).retry
         THEN AloneAttempts(rt, outs, n + 1)
         ELSE n

\* the error sendRequest run alone returns after leaving its loop at attempt n
AloneResult(rt, outs, n) ==
    LET o == outs[n]
        d == CheckRetry(rt, FALSE, o.resp, n, o.err)
    IN  IF o.err = Nil /\ d.err = Nil /\ ~d.retry
        THEN decodeEnvelope(o.resp.body)
        ELSE exitError(o.err, d.err, n)

\* C34: two Calls running concurrently on the same client, sharing its HTTP
\* client and retryer, do not influence each other: under every interleaving
\* each call's attempt counter counts its own exchanges, each of its retry
\* decisions is the one CheckRetry gives for its own outcome and attempt
\* number, and its attempts and returned result are those of the call run
\* alone against the same sequence of outcomes; a step of one call leaves the
\* locals of the other alone, and no step writes the retryer.
C34_CallsIndependent ==
    /\ [](\A c \in DOMAIN calls :
            LET k == calls[c] IN
            /\ k.attempt = Len(k.outcomes) + (IF k.pc = "Attempting" THEN 1 ELSE 0)
            /\ \A i \in 1..Len(k.decisions) :
                  k.decisions[i] = CheckRetry(retry, FALSE, k.outcomes[i].resp, i,
                                              k.outcomes[i].err)
            /\ k.pc \in {"Finalizing", "Done"}
               => k.attempt = AloneAttempts(retry, k.outcomes, 1)
            /\ k.pc = "Done"
               => k.ret = AloneResult(retry, k.outcomes, k.attempt))
    /\ [][/\ RequestRetryer' = RequestRetryer
          /\ \A c \in DOMAIN calls :
                calls'[c] # calls[c]
                => \A d \in DOMAIN calls \ {c} : calls'[d] = calls[d]]_vars

\* one call has returned its result after a retry while the other, which
\* met a transport error, is in its backoff wait
C34_Witness ==
    /\ DOMAIN calls = CallIds
    /\ calls[1].pc = "Done" /\ calls[1].attempt = 2 /\ calls[1].ret = Nil
    /\ calls[1].v = "Value"
    /\ calls[2].pc = "Waiting" /\ calls[2].attempt = 2
    /\ calls[2].outcomes[1].err = GenericErr
    /\ calls[2].outcomes[2].resp.status = 500
    /\ exchanges = 4
====
